---- MODULE Spec2Model ----
(***************************************************************************)
(* Model of the minimal-timer engine: the page script (the second half of  *)
(* src/sw.js, from line 38 on) and the timing worker (src/worker.js).      *)
(*                                                                         *)
(* Two threads exchange messages over two FIFO channels.  Every event      *)
(* handler of the page script and of the worker is one atomic action; the  *)
(* handlers are written as operators over a context record that holds the  *)
(* globals the handler may read and write, so that the order of the        *)
(* assignments inside a handler is kept.                                   *)
(***************************************************************************)
EXTENDS Integers, Sequences, FiniteSets, TLC

VARIABLES
  state,                \* the script's `state` object (sw.js:59-70)
  fallbackStartTime,    \* sw.js:259
  fallbackAccumulated,  \* sw.js:260
  fallbackInterval,     \* sw.js:261, TRUE when the handle is not null
  intervals,            \* number of live setInterval timers of the page
  framePending,         \* a requestAnimationFrame callback is scheduled
  isEditing,            \* sw.js:433
  stored,               \* localStorage[STORAGE_KEYS.COUNTDOWN_VALUE]
  display,              \* the text of #timerDisplay
  toWorker,             \* messages posted by the page, not yet handled
  toMain,               \* messages posted by the worker, not yet handled
  wk,                   \* the worker's globals (worker.js:8-11)
  now,                  \* performance.now()
  hidden,               \* document.hidden
  completions,          \* history: handleCountdownComplete calls since the last accepted start
  lastOp,               \* history: the last control operation the user invoked
  ops,                  \* history: number of user events so far
  codec,                \* an application of the time codec: its input and results
  twin                  \* two sessions given the same calls, one per clock source

vars == <<state, fallbackStartTime, fallbackAccumulated, fallbackInterval,
          intervals, framePending, isEditing, stored, display, toWorker,
          toMain, wk, now, hidden, completions, lastOp, ops, codec, twin>>

----------------------------------------------------------------------------
(* Bounds of the model *)

\* milliseconds that pass in one step of the clock
Quantum == 10

\* number of clock steps
MaxSteps == 2

\* capacity of each message channel
MaxQueue == 2

\* live interval timers of the page
MaxIntervals == 2

\* the completion counter saturates here
MaxCompletions == 2

\* number of user events (clicks, keys, visibility changes) in a run
MaxOps == 3

\* number of calls made on the two sessions that are compared
MaxCalls == 3

----------------------------------------------------------------------------
(* Constants of the program *)

MS_PER_SECOND == 1000

MS_PER_MINUTE == 60 * MS_PER_SECOND

MS_PER_HOUR == 60 * MS_PER_MINUTE

CENTISECONDS_PER_SECOND == 100

MODE_STOPWATCH == "stopwatch"

MODE_COUNTDOWN == "countdown"

\* the 5 minutes of setMode and loadState
DefaultTargetMs == 5 * MS_PER_MINUTE

\* JavaScript's null, for a value that is otherwise a one-element sequence
null == <<>>

Max(a, b) == IF a >= b THEN a ELSE b

Min(a, b) == IF a <= b THEN a ELSE b

----------------------------------------------------------------------------
(* Time codec.  A string is a sequence of one-character strings. *)

DigitChars == <<"0", "1", "2", "3", "4", "5", "6", "7", "8", "9">>

IsDigit(ch) == \E i \in 1..10 : DigitChars[i] = ch

DigitValue(ch) == (CHOOSE i \in 1..10 : DigitChars[i] = ch) - 1

\* JavaScript's % : the result takes the sign of the dividend
JsRem(a, b) == IF a >= 0 THEN a % b ELSE 0 - ((0 - a) % b)

RECURSIVE NatToString(_)
NatToString(n) ==
  IF n < 10 THEN <<DigitChars[n + 1]>>
  ELSE NatToString(n \div 10) \o <<DigitChars[(n % 10) + 1]>>

\* String(n)
JsString(n) == IF n < 0 THEN <<"-">> \o NatToString(0 - n) ELSE NatToString(n)

\* s.padStart(2, '0')
PadStart2(s) == IF Len(s) < 2 THEN <<"0">> \o s ELSE s

\* parseInt(s, 10) of a string of digits
RECURSIVE ParseInt(_)
ParseInt(s) ==
  IF Len(s) = 0 THEN 0
  ELSE 10 * ParseInt(SubSeq(s, 1, Len(s) - 1)) + DigitValue(s[Len(s)])

\* formatTime with the seconds not reduced modulo 60
formatTime_SecondsNotWrapped(ms) ==
  LET totalCs == ms \div 10
      cs == JsRem(totalCs, CENTISECONDS_PER_SECOND)
      totalSeconds == totalCs \div CENTISECONDS_PER_SECOND
      totalMinutes == totalSeconds \div 60
      minutes == JsRem(totalMinutes, 60)
      hours == totalMinutes \div 60
  IN [hh |-> PadStart2(JsString(hours)),
      mm |-> PadStart2(JsString(minutes)),
      ss |-> PadStart2(JsString(totalSeconds)),
      cc |-> PadStart2(JsString(cs))]

formatTime(ms) ==
  LET totalCs == ms \div 10
      cs == JsRem(totalCs, CENTISECONDS_PER_SECOND)
      totalSeconds == totalCs \div CENTISECONDS_PER_SECOND
      seconds == JsRem(totalSeconds, 60)
      totalMinutes == totalSeconds \div 60
      minutes == JsRem(totalMinutes, 60)
      hours == totalMinutes \div 60
  IN [hh |-> PadStart2(JsString(hours)),
      mm |-> PadStart2(JsString(minutes)),
      ss |-> PadStart2(JsString(seconds)),
      cc |-> PadStart2(JsString(cs))]

msToString(ms) ==
  LET f == formatTime(ms)
  IN f.hh \o <<":">> \o f.mm \o <<":">> \o f.ss \o <<".">> \o f.cc

\* str.trim(): the white space here is the space character
RECURSIVE TrimLeft(_)
TrimLeft(s) == IF Len(s) > 0 /\ s[1] = " " THEN TrimLeft(Tail(s)) ELSE s

RECURSIVE TrimRight(_)
TrimRight(s) ==
  IF Len(s) > 0 /\ s[Len(s)] = " " THEN TrimRight(SubSeq(s, 1, Len(s) - 1)) ELSE s

Trim(s) == TrimRight(TrimLeft(s))

AllDigits(s) == \A i \in 1..Len(s) : IsDigit(s[i])

\* The group lengths <<a, b, c, d>> under which s matches
\* /^(\d{1,2}):(\d{1,2}):(\d{1,2})\.(\d{1,2})$/ ; at most one tuple fits.
PatternMatches(s) ==
  {g \in (1..2) \X (1..2) \X (1..2) \X (1..2) :
     /\ Len(s) = g[1] + g[2] + g[3] + g[4] + 3
     /\ AllDigits(SubSeq(s, 1, g[1]))
     /\ s[g[1] + 1] = ":"
     /\ AllDigits(SubSeq(s, g[1] + 2, g[1] + g[2] + 1))
     /\ s[g[1] + g[2] + 2] = ":"
     /\ AllDigits(SubSeq(s, g[1] + g[2] + 3, g[1] + g[2] + g[3] + 2))
     /\ s[g[1] + g[2] + g[3] + 3] = "."
     /\ AllDigits(SubSeq(s, g[1] + g[2] + g[3] + 4, Len(s)))}

\* parseTime with the centiseconds added as milliseconds
parseTime_CentisecondsAsMs(str) ==
  LET s == Trim(str)
      m == PatternMatches(s)
  IN IF m = {} THEN null
     ELSE LET g == CHOOSE x \in m : TRUE
              hours == ParseInt(SubSeq(s, 1, g[1]))
              minutes == ParseInt(SubSeq(s, g[1] + 2, g[1] + g[2] + 1))
              seconds == ParseInt(SubSeq(s, g[1] + g[2] + 3, g[1] + g[2] + g[3] + 2))
              centiseconds == ParseInt(SubSeq(s, g[1] + g[2] + g[3] + 4, Len(s)))
          IN IF minutes >= 60 \/ seconds >= 60 \/ centiseconds >= 100 THEN null
             ELSE <<hours * MS_PER_HOUR + minutes * MS_PER_MINUTE
                    + seconds * MS_PER_SECOND + centiseconds>>

\* null, or <<totalMs>>
parseTime(str) ==
  LET s == Trim(str)
      m == PatternMatches(s)
  IN IF m = {} THEN null
     ELSE LET g == CHOOSE x \in m : TRUE
              hours == ParseInt(SubSeq(s, 1, g[1]))
              minutes == ParseInt(SubSeq(s, g[1] + 2, g[1] + g[2] + 1))
              seconds == ParseInt(SubSeq(s, g[1] + g[2] + 3, g[1] + g[2] + g[3] + 2))
              centiseconds == ParseInt(SubSeq(s, g[1] + g[2] + g[3] + 4, Len(s)))
          IN IF minutes >= 60 \/ seconds >= 60 \/ centiseconds >= 100 THEN null
             ELSE <<hours * MS_PER_HOUR + minutes * MS_PER_MINUTE
                    + seconds * MS_PER_SECOND + centiseconds * 10>>

----------------------------------------------------------------------------
(* The page script.  A context c holds the globals a handler reads and     *)
(* writes, the channel to the worker, and the clock value the handler sees.*)

Ctx ==
  [state |-> state,
   fallbackStartTime |-> fallbackStartTime,
   fallbackAccumulated |-> fallbackAccumulated,
   fallbackInterval |-> fallbackInterval,
   intervals |-> intervals,
   framePending |-> framePending,
   isEditing |-> isEditing,
   stored |-> stored,
   display |-> display,
   toWorker |-> toWorker,
   completions |-> completions,
   now |-> now]

\* The handler's result becomes the next state; a handler that would
\* overfill a bounded resource of the model is not taken.
Commit(result) == \E c \in {result} :
  /\ Len(c.toWorker) <= MaxQueue
  /\ c.intervals <= MaxIntervals
  /\ state' = c.state
  /\ fallbackStartTime' = c.fallbackStartTime
  /\ fallbackAccumulated' = c.fallbackAccumulated
  /\ fallbackInterval' = c.fallbackInterval
  /\ intervals' = c.intervals
  /\ framePending' = c.framePending
  /\ isEditing' = c.isEditing
  /\ stored' = c.stored
  /\ display' = c.display
  /\ toWorker' = c.toWorker
  /\ completions' = c.completions
  /\ UNCHANGED <<codec, twin>>

\* state.worker.postMessage({type, payload: {fromMs}})
postMessage(c, type, fromMs) ==
  [c EXCEPT !.toWorker = Append(@, [type |-> type, fromMs |-> fromMs])]

startRenderLoop(c) ==
  IF c.state.animationFrameId = FALSE
  THEN [c EXCEPT !.state.animationFrameId = TRUE, !.framePending = TRUE]
  ELSE c

stopRenderLoop(c) ==
  IF c.state.animationFrameId = TRUE
  THEN [c EXCEPT !.state.animationFrameId = FALSE, !.framePending = FALSE]
  ELSE c

\* clearInterval(fallbackInterval): clearing a null handle does nothing
clearFallbackInterval(c) ==
  IF c.fallbackInterval THEN [c EXCEPT !.intervals = @ - 1] ELSE c

\* F(x) with x evaluated once: `const v = x; F(v)`
Bind(x, F(_)) == CHOOSE r \in {F(v) : v \in {x}} : TRUE

RECURSIVE updateDisplay(_, _)

\* pauseTimer that clears state.running before the worker has answered
pauseTimer_StopsAtOnce(c) ==
  IF ~c.state.running THEN c
  ELSE IF c.state.workerFallback
       THEN Bind(stopRenderLoop(
                   [clearFallbackInterval(c) EXCEPT
                      !.state.running = FALSE,
                      !.fallbackAccumulated = c.state.elapsedMs,
                      !.fallbackInterval = FALSE]),
                 LAMBDA c1 : updateDisplay(c1, c1.state.elapsedMs))
       ELSE postMessage([c EXCEPT !.state.running = FALSE], "pause", 0)

pauseTimer(c) ==
  IF ~c.state.running THEN c
  ELSE IF c.state.workerFallback
       THEN Bind(stopRenderLoop(
                   [clearFallbackInterval(c) EXCEPT
                      !.state.running = FALSE,
                      !.fallbackAccumulated = c.state.elapsedMs,
                      !.fallbackInterval = FALSE]),
                 LAMBDA c1 : updateDisplay(c1, c1.state.elapsedMs))
       ELSE postMessage(c, "pause", 0)

handleCountdownComplete(c) ==
  pauseTimer([c EXCEPT !.state.countdownCompleted = TRUE,
                       !.completions = Min(MaxCompletions, @ + 1)])

\* updateDisplay without the Math.max clamp of the remaining time
updateDisplay_NoClamp(c, ms) ==
  IF c.state.mode = MODE_COUNTDOWN
  THEN Bind(c.state.countdownTargetMs - ms,
            LAMBDA remaining :
              Bind([c EXCEPT !.display = formatTime(remaining)],
                   LAMBDA c1 :
                     IF remaining <= 0 /\ c1.state.running /\ ~c1.state.countdownCompleted
                     THEN handleCountdownComplete(c1)
                     ELSE c1))
  ELSE [c EXCEPT !.display = formatTime(ms)]

updateDisplay(c, ms) ==
  IF c.state.mode = MODE_COUNTDOWN
  THEN Bind(Max(0, c.state.countdownTargetMs - ms),
            LAMBDA remaining :
              Bind([c EXCEPT !.display = formatTime(remaining)],
                   LAMBDA c1 :
                     IF remaining = 0 /\ c1.state.running /\ ~c1.state.countdownCompleted
                     THEN handleCountdownComplete(c1)
                     ELSE c1))
  ELSE [c EXCEPT !.display = formatTime(ms)]

\* the callback of requestAnimationFrame
renderLoop(c) ==
  IF c.state.running
  THEN LET c1 == updateDisplay(c, c.state.elapsedMs)
       IN [c1 EXCEPT !.state.animationFrameId = TRUE, !.framePending = TRUE]
  ELSE c

fallbackToMainThread(c) == [c EXCEPT !.state.workerFallback = TRUE]

\* startTimer that marks the session running before the worker answers
startTimer_SetsRunning(c) ==
  IF c.state.running THEN c
  ELSE LET c1 == [c EXCEPT !.state.countdownCompleted = FALSE, !.completions = 0]
       IN IF c1.state.workerFallback
          THEN startRenderLoop(
                 [c1 EXCEPT !.state.running = TRUE,
                            !.fallbackStartTime = c1.now,
                            !.fallbackAccumulated = c1.state.elapsedMs,
                            !.fallbackInterval = TRUE,
                            !.intervals = @ + 1])
          ELSE postMessage([c1 EXCEPT !.state.running = TRUE],
                           "start", c1.state.elapsedMs)

startTimer(c) ==
  IF c.state.running THEN c
  ELSE LET c1 == [c EXCEPT !.state.countdownCompleted = FALSE, !.completions = 0]
       IN IF c1.state.workerFallback
          THEN startRenderLoop(
                 [c1 EXCEPT !.state.running = TRUE,
                            !.fallbackStartTime = c1.now,
                            !.fallbackAccumulated = c1.state.elapsedMs,
                            !.fallbackInterval = TRUE,
                            !.intervals = @ + 1])
          ELSE postMessage(c1, "start", c1.state.elapsedMs)

\* resetTimer that asks the worker whatever the clock source is
resetTimer_AlwaysPosts(c) == postMessage(c, "reset", 0)

resetTimer(c) ==
  IF c.state.workerFallback
  THEN LET c1 == IF c.state.running
                 THEN [clearFallbackInterval(c) EXCEPT !.fallbackInterval = FALSE]
                 ELSE c
           c2 == [c1 EXCEPT !.state.running = FALSE,
                            !.state.elapsedMs = 0,
                            !.fallbackAccumulated = 0,
                            !.state.countdownCompleted = FALSE]
       IN updateDisplay(stopRenderLoop(c2), 0)
  ELSE postMessage(c, "reset", 0)

toggleStartPause(c) == IF c.state.running THEN pauseTimer(c) ELSE startTimer(c)

setMode(c, mode) ==
  IF c.state.mode = mode THEN c
  ELSE LET c1 == IF c.state.running THEN pauseTimer(c) ELSE c
           c2 == [c1 EXCEPT !.state.mode = mode,
                            !.state.elapsedMs = 0,
                            !.state.countdownCompleted = FALSE]
           c3 == IF mode = MODE_COUNTDOWN /\ c2.stored # null /\ c2.stored[1] > 0
                 THEN [c2 EXCEPT !.state.countdownTargetMs = c2.stored[1]]
                 ELSE c2
           c4 == IF mode = MODE_COUNTDOWN /\ c3.state.countdownTargetMs = 0
                 THEN [c3 EXCEPT !.state.countdownTargetMs = DefaultTargetMs]
                 ELSE c3
       IN updateDisplay(c4, 0)

toggleMode(c) ==
  setMode(c, IF c.state.mode = MODE_STOPWATCH THEN MODE_COUNTDOWN ELSE MODE_STOPWATCH)

enterEditMode(c) ==
  IF c.isEditing THEN c
  ELSE LET c1 == [c EXCEPT !.isEditing = TRUE]
       IN IF c1.state.running THEN pauseTimer(c1) ELSE c1

\* value is elements.timeEditor.value when the edit ends
exitEditMode(c, save, value) ==
  IF ~c.isEditing THEN c
  ELSE LET c1 == [c EXCEPT !.isEditing = FALSE]
           ms == parseTime(value)
           c2 == IF save /\ ms # null
                 THEN IF c1.state.mode = MODE_COUNTDOWN
                      THEN [c1 EXCEPT !.state.countdownTargetMs = ms[1],
                                      !.state.elapsedMs = 0,
                                      !.stored = ms]
                      ELSE [c1 EXCEPT !.state.elapsedMs = ms[1]]
                 ELSE c1
       IN updateDisplay(c2, c2.state.elapsedMs)

\* the message listener with a 'paused' handler that leaves state.running set
onWorkerMessage_PausedKeepsRunning(c, msg) ==
  CASE msg.type = "tick" -> [c EXCEPT !.state.elapsedMs = msg.elapsed]
    [] msg.type = "started" ->
         startRenderLoop([c EXCEPT !.state.running = TRUE,
                                   !.state.elapsedMs = msg.elapsed])
    [] msg.type = "paused" ->
         LET c1 == stopRenderLoop([c EXCEPT !.state.elapsedMs = msg.elapsed])
         IN updateDisplay(c1, msg.elapsed)
    [] msg.type = "reset" ->
         LET c1 == stopRenderLoop([c EXCEPT !.state.running = FALSE,
                                            !.state.elapsedMs = 0,
                                            !.state.countdownCompleted = FALSE])
         IN updateDisplay(c1, 0)
    [] OTHER -> c

\* the listener of the worker's messages
onWorkerMessage(c, msg) ==
  CASE msg.type = "tick" -> [c EXCEPT !.state.elapsedMs = msg.elapsed]
    [] msg.type = "started" ->
         startRenderLoop([c EXCEPT !.state.running = TRUE,
                                   !.state.elapsedMs = msg.elapsed])
    [] msg.type = "paused" ->
         LET c1 == stopRenderLoop([c EXCEPT !.state.running = FALSE,
                                            !.state.elapsedMs = msg.elapsed])
         IN updateDisplay(c1, msg.elapsed)
    [] msg.type = "reset" ->
         LET c1 == stopRenderLoop([c EXCEPT !.state.running = FALSE,
                                            !.state.elapsedMs = 0,
                                            !.state.countdownCompleted = FALSE])
         IN updateDisplay(c1, 0)
    [] OTHER -> c

\* the callback of the fallback's setInterval
fallbackTick(c) ==
  [c EXCEPT !.state.elapsedMs = c.fallbackAccumulated + (c.now - c.fallbackStartTime)]

\* the listener of visibilitychange; nowHidden is document.hidden
onVisibilityChange(c, nowHidden) ==
  IF nowHidden THEN stopRenderLoop(c)
  ELSE IF c.state.running THEN startRenderLoop(c)
       ELSE updateDisplay(c, c.state.elapsedMs)

----------------------------------------------------------------------------
(* The worker.  A context w holds its globals, the channel to the page and *)
(* the clock value the handler sees.                                       *)

WCtx ==
  [running |-> wk.running,
   startTime |-> wk.startTime,
   accumulatedMs |-> wk.accumulatedMs,
   tickInterval |-> wk.tickInterval,
   timers |-> wk.timers,
   toMain |-> toMain,
   now |-> now]

WCommit(result) == \E w \in {result} :
  /\ Len(w.toMain) <= MaxQueue
  /\ w.timers <= MaxIntervals
  /\ wk' = [running |-> w.running, startTime |-> w.startTime,
            accumulatedMs |-> w.accumulatedMs, tickInterval |-> w.tickInterval,
            timers |-> w.timers]
  /\ toMain' = w.toMain
  /\ UNCHANGED <<codec, twin>>

\* self.postMessage({type, elapsed})
selfPostMessage(w, type, elapsed) ==
  [w EXCEPT !.toMain = Append(@, [type |-> type, elapsed |-> elapsed])]

tick(w) ==
  IF ~w.running THEN w
  ELSE selfPostMessage(w, "tick", w.accumulatedMs + (w.now - w.startTime))

\* start without the test of the running flag
start_NoGuard(w, fromMs) ==
  selfPostMessage([w EXCEPT !.running = TRUE,
                            !.accumulatedMs = fromMs,
                            !.startTime = w.now,
                            !.tickInterval = TRUE,
                            !.timers = @ + 1],
                  "started", fromMs)

start(w, fromMs) ==
  IF w.running THEN w
  ELSE selfPostMessage([w EXCEPT !.running = TRUE,
                                 !.accumulatedMs = fromMs,
                                 !.startTime = w.now,
                                 !.tickInterval = TRUE,
                                 !.timers = @ + 1],
                       "started", fromMs)

\* clearInterval(tickInterval): clearing a null handle does nothing
clearTickInterval(w) ==
  IF w.tickInterval THEN [w EXCEPT !.timers = @ - 1] ELSE w

\* pause that leaves the tick interval alive
pause_KeepsInterval(w) ==
  IF ~w.running THEN w
  ELSE LET acc == w.accumulatedMs + (w.now - w.startTime)
       IN selfPostMessage([w EXCEPT !.running = FALSE,
                                    !.accumulatedMs = acc],
                          "paused", acc)

\* pause that stops the clock and posts no message
pause_NoMessage(w) ==
  IF ~w.running THEN w
  ELSE LET acc == w.accumulatedMs + (w.now - w.startTime)
       IN [clearTickInterval(w) EXCEPT !.running = FALSE,
                                       !.accumulatedMs = acc,
                                       !.tickInterval = FALSE]

pause(w) ==
  IF ~w.running THEN w
  ELSE LET acc == w.accumulatedMs + (w.now - w.startTime)
       IN selfPostMessage([clearTickInterval(w) EXCEPT !.running = FALSE,
                                                       !.accumulatedMs = acc,
                                                       !.tickInterval = FALSE],
                          "paused", acc)

\* reset that leaves the worker stopped
reset_NoRestart(w) ==
  LET w1 == IF w.running
            THEN [clearTickInterval(w) EXCEPT !.tickInterval = FALSE]
            ELSE w
  IN selfPostMessage([w1 EXCEPT !.running = FALSE,
                                !.startTime = 0,
                                !.accumulatedMs = 0],
                     "reset", 0)

reset(w) ==
  LET wasRunning == w.running
      w1 == IF w.running
            THEN [clearTickInterval(w) EXCEPT !.tickInterval = FALSE]
            ELSE w
      w2 == selfPostMessage([w1 EXCEPT !.running = FALSE,
                                       !.startTime = 0,
                                       !.accumulatedMs = 0],
                            "reset", 0)
  IN IF wasRunning THEN start(w2, 0) ELSE w2

\* the worker's listener of the page's messages
onPageMessage(w, msg) ==
  CASE msg.type = "start" -> start(w, msg.fromMs)
    [] msg.type = "pause" -> pause(w)
    [] msg.type = "reset" -> reset(w)
    [] OTHER -> w

----------------------------------------------------------------------------
(* Inputs *)

\* what the user may have typed into the editor when the edit ends:
\* "0:0:0.0", "0:0:0.1" (one centisecond), "0:60:0.0" and "a"
EditInputs ==
  { <<"0", ":", "0", ":", "0", ".", "0">>,
    <<"0", ":", "0", ":", "0", ".", "1">>,
    <<"0", ":", "6", "0", ":", "0", ".", "0">>,
    <<"a">> }

\* what localStorage may hold for the countdown value when the page loads:
\* nothing, or the value of an earlier target edit
StoredInputs == {null, <<0>>, <<10>>}

----------------------------------------------------------------------------
(* The state after init() (sw.js:823-844): loadState, then initWorker,     *)
(* whose `new Worker` either succeeds or throws, then updateDisplay(0).    *)

TimerInit ==
  \E m \in {MODE_STOPWATCH, MODE_COUNTDOWN}, sv \in StoredInputs, built \in BOOLEAN :
    LET target == IF m = MODE_COUNTDOWN
                  THEN (IF sv # null /\ sv[1] > 0 THEN sv[1] ELSE DefaultTargetMs)
                  ELSE 0
    IN /\ state = [mode |-> m, running |-> FALSE, elapsedMs |-> 0,
                   countdownTargetMs |-> target, countdownCompleted |-> FALSE,
                   worker |-> built, animationFrameId |-> FALSE,
                   workerFallback |-> ~built]
       /\ fallbackStartTime = 0
       /\ fallbackAccumulated = 0
       /\ fallbackInterval = FALSE
       /\ intervals = 0
       /\ framePending = FALSE
       /\ isEditing = FALSE
       /\ stored = sv
       /\ display = formatTime(IF m = MODE_COUNTDOWN THEN target ELSE 0)
       /\ toWorker = <<>>
       /\ toMain = IF built THEN <<[type |-> "ready", elapsed |-> 0]>> ELSE <<>>
       /\ wk = [running |-> FALSE, startTime |-> 0, accumulatedMs |-> 0,
                tickInterval |-> FALSE, timers |-> 0]
       /\ now = 0
       /\ hidden = FALSE
       /\ completions = 0
       /\ lastOp = "other"
       /\ ops = 0

\* no application of the codec is under way
CodecIdle ==
  [phase |-> "idle", ms |-> 0, str |-> <<>>, comps |-> <<>>, padded |-> FALSE,
   parsed |-> null, text |-> <<>>]

\* the page's globals after init() in Stopwatch mode with an empty store;
\* built tells whether `new Worker` succeeded
PageAfterInit(built) ==
  [state |-> [mode |-> MODE_STOPWATCH, running |-> FALSE, elapsedMs |-> 0,
              countdownTargetMs |-> 0, countdownCompleted |-> FALSE,
              worker |-> built, animationFrameId |-> FALSE,
              workerFallback |-> ~built],
   fallbackStartTime |-> 0,
   fallbackAccumulated |-> 0,
   fallbackInterval |-> FALSE,
   intervals |-> 0,
   framePending |-> FALSE,
   isEditing |-> FALSE,
   stored |-> null,
   display |-> formatTime(0),
   toWorker |-> <<>>,
   completions |-> 0,
   now |-> 0]

\* the worker's globals after its script has run and posted 'ready'
WorkerAfterLoad ==
  [running |-> FALSE, startTime |-> 0, accumulatedMs |-> 0,
   tickInterval |-> FALSE, timers |-> 0,
   toMain |-> <<[type |-> "ready", elapsed |-> 0]>>,
   now |-> 0]

\* a session on the worker clock (iso, with its worker wk) next to a session
\* on the fallback clock (fb), before any call
TwinStart ==
  [iso |-> PageAfterInit(TRUE), wk |-> WorkerAfterLoad, fb |-> PageAfterInit(FALSE),
   calls |-> 0]

Init == TimerInit /\ codec = CodecIdle /\ twin = TwinStart

----------------------------------------------------------------------------
(* Actions of the page *)

\* one more user event
UserEvent == ops < MaxOps /\ ops' = ops + 1

\* click on Start/Pause, or the space key
ClickStartPause ==
  /\ UserEvent
  /\ Commit(toggleStartPause(Ctx))
  /\ lastOp' = "other"
  /\ UNCHANGED <<toMain, wk, now, hidden>>

\* click on Reset, or the R key
ClickReset ==
  /\ UserEvent
  /\ Commit(resetTimer(Ctx))
  /\ lastOp' = "reset"
  /\ UNCHANGED <<toMain, wk, now, hidden>>

\* click on the mode toggle, the M key or a double tap
ClickMode ==
  /\ UserEvent
  /\ Commit(toggleMode(Ctx))
  /\ lastOp' = IF state.running THEN "switchRunning" ELSE "other"
  /\ UNCHANGED <<toMain, wk, now, hidden>>

\* click on the display, or the E key
EnterEdit ==
  /\ UserEvent
  /\ ~isEditing
  /\ Commit(enterEditMode(Ctx))
  /\ lastOp' = "other"
  /\ UNCHANGED <<toMain, wk, now, hidden>>

\* blur or Enter (save) and Escape (no save) in the editor
ExitEdit(save, value) ==
  /\ UserEvent
  /\ isEditing
  /\ Commit(exitEditMode(Ctx, save, value))
  /\ lastOp' = "other"
  /\ UNCHANGED <<toMain, wk, now, hidden>>

\* the tab is hidden or shown
VisibilityChange ==
  /\ UserEvent
  /\ hidden' = ~hidden
  /\ Commit(onVisibilityChange(Ctx, ~hidden))
  /\ UNCHANGED <<toMain, wk, now, lastOp>>

\* the browser runs the scheduled frame callback; it runs none while the
\* tab is hidden
RenderFrame ==
  /\ framePending
  /\ ~hidden
  /\ Commit(renderLoop([Ctx EXCEPT !.framePending = FALSE]))
  /\ UNCHANGED <<toMain, wk, now, hidden, lastOp, ops>>

\* a live interval timer of the page fires
FallbackInterval ==
  /\ intervals > 0
  /\ Commit(fallbackTick(Ctx))
  /\ UNCHANGED <<toMain, wk, now, hidden, lastOp, ops>>

\* the page handles the next message of the worker
Deliver ==
  /\ toMain # <<>>
  /\ Commit(onWorkerMessage(Ctx, Head(toMain)))
  /\ toMain' = Tail(toMain)
  /\ UNCHANGED <<wk, now, hidden, lastOp, ops>>

\* the worker object's error event
WorkerError ==
  /\ state.worker
  /\ ~state.workerFallback
  /\ Commit(fallbackToMainThread(Ctx))
  /\ UNCHANGED <<toMain, wk, now, hidden, lastOp, ops>>

----------------------------------------------------------------------------
(* Actions of the worker and of the clock *)

WorkerHandle ==
  /\ toWorker # <<>>
  /\ WCommit(onPageMessage(WCtx, Head(toWorker)))
  /\ toWorker' = Tail(toWorker)
  /\ UNCHANGED <<state, fallbackStartTime, fallbackAccumulated, fallbackInterval,
                 intervals, framePending, isEditing, stored, display, now,
                 hidden, completions, lastOp, ops>>

\* a live interval timer of the worker fires
WorkerTick ==
  /\ wk.timers > 0
  /\ WCommit(tick(WCtx))
  /\ UNCHANGED <<state, fallbackStartTime, fallbackAccumulated, fallbackInterval,
                 intervals, framePending, isEditing, stored, display, toWorker,
                 now, hidden, completions, lastOp, ops>>

Advance ==
  /\ now < MaxSteps * Quantum
  /\ now' = now + Quantum
  /\ UNCHANGED <<state, fallbackStartTime, fallbackAccumulated, fallbackInterval,
                 intervals, framePending, isEditing, stored, display, toWorker,
                 toMain, wk, hidden, completions, lastOp, ops, codec, twin>>

Next ==
  \/ ClickStartPause
  \/ ClickReset
  \/ ClickMode
  \/ EnterEdit
  \/ \E save \in BOOLEAN, value \in EditInputs : ExitEdit(save, value)
  \/ VisibilityChange
  \/ RenderFrame
  \/ FallbackInterval
  \/ Deliver
  \/ WorkerError
  \/ WorkerHandle
  \/ WorkerTick
  \/ Advance

Spec == Init /\ [][Next]_vars

\* the runs in which the worker never raises an error
NextNoFault ==
  \/ ClickStartPause
  \/ ClickReset
  \/ ClickMode
  \/ EnterEdit
  \/ \E save \in BOOLEAN, value \in EditInputs : ExitEdit(save, value)
  \/ VisibilityChange
  \/ RenderFrame
  \/ FallbackInterval
  \/ Deliver
  \/ WorkerHandle
  \/ WorkerTick
  \/ Advance

NoFaultSpec == Init /\ [][NextNoFault]_vars

\* What the scheduling of the browser guarantees: a posted message is
\* handled, a live timer fires, a scheduled frame runs while the tab is
\* visible, and time passes.  Nothing is assumed of the user.
Fairness ==
  /\ WF_vars(Deliver)
  /\ WF_vars(WorkerHandle)
  /\ WF_vars(WorkerTick)
  /\ WF_vars(FallbackInterval)
  /\ WF_vars(RenderFrame)
  /\ WF_vars(Advance)

FairSpec == Init /\ [][Next]_vars /\ Fairness

\* The event loops handle every posted message.  A handler that the bound
\* on the opposite queue disables for a moment is still taken once the
\* queue has room again, and the page works the queue of the worker down
\* to every length, the empty queue included, faster than the timer of the
\* worker refills it.
MessageFairness ==
  /\ \A k \in 0..(MaxQueue - 1) : SF_vars(Deliver /\ Len(toMain') = k)
  /\ SF_vars(WorkerHandle)

\* the fairly scheduled runs in which the worker never raises an error
FairNoFaultSpec ==
  Init /\ [][NextNoFault]_vars /\ Fairness /\ MessageFairness

----------------------------------------------------------------------------
(* The time codec on its own: an input is drawn, then formatTime/msToString *)
(* and parseTime are applied to it and to each other's result.             *)

timerVars == <<state, fallbackStartTime, fallbackAccumulated, fallbackInterval,
               intervals, framePending, isEditing, stored, display, toWorker,
               toMain, wk, now, hidden, completions, lastOp, ops>>

\* h:m:s.c
Join4(h, m, s, c) == h \o <<":">> \o m \o <<":">> \o s \o <<".">> \o c

\* millisecond values given to formatTime: whole centiseconds below 100
\* hours, then 5 and 12345 (not whole centiseconds) and 100 hours
CodecMsInputs ==
  {h * MS_PER_HOUR + m * MS_PER_MINUTE + s * MS_PER_SECOND + c * 10 :
     h \in {0, 1, 99}, m \in {0, 59}, s \in {0, 12, 59}, c \in {0, 34, 99}}
  \cup {5, 12345, 100 * MS_PER_HOUR}

CodecHourTexts == { <<"0">>, <<"1", "2">>, <<"9", "9">> }

CodecSixtyTexts == { <<"0">>, <<"0", "7">>, <<"5", "9">>, <<"6", "0">> }

CodecCentiTexts == { <<"5">>, <<"0", "5">>, <<"9", "9">> }

\* texts that are not of the form h:m:s.c with one or two digits each:
\* "", "a", "1:2:3", "1:2:3.456", "123:0:0.0", "1:2:3,4", "-1:0:0.0", "1:2:3.4x"
CodecMalformedTexts ==
  { <<>>,
    <<"a">>,
    <<"1", ":", "2", ":", "3">>,
    <<"1", ":", "2", ":", "3", ".", "4", "5", "6">>,
    <<"1", "2", "3", ":", "0", ":", "0", ".", "0">>,
    <<"1", ":", "2", ":", "3", ",", "4">>,
    <<"-", "1", ":", "0", ":", "0", ".", "0">>,
    <<"1", ":", "2", ":", "3", ".", "4", "x">> }

\* the inputs of one application of the codec; a text input records the
\* components it was written from and whether blanks surround it
CodecStart ==
  {[CodecIdle EXCEPT !.phase = "ms", !.ms = v] : v \in CodecMsInputs}
  \cup {[phase |-> "str", ms |-> 0, parsed |-> null, text |-> <<>>,
         comps |-> <<h, m, s, c>>, padded |-> pad,
         str |-> IF pad THEN <<" ">> \o Join4(h, m, s, c) \o <<" ">>
                 ELSE Join4(h, m, s, c)] :
          h \in CodecHourTexts, m \in CodecSixtyTexts, s \in CodecSixtyTexts,
          c \in CodecCentiTexts, pad \in BOOLEAN}
  \cup {[CodecIdle EXCEPT !.phase = "str", !.str = t] : t \in CodecMalformedTexts}

CodecInit == TimerInit /\ codec \in CodecStart /\ twin = TwinStart

\* msToString(ms)
FormatMs ==
  /\ codec.phase = "ms"
  /\ codec' = [codec EXCEPT !.phase = "formatted", !.text = msToString(codec.ms)]
  /\ UNCHANGED <<timerVars, twin>>

\* parseTime(msToString(ms))
ParseFormatted ==
  /\ codec.phase = "formatted"
  /\ codec' = [codec EXCEPT !.phase = "reparsed", !.parsed = parseTime(codec.text)]
  /\ UNCHANGED <<timerVars, twin>>

\* parseTime(str)
ParseStr ==
  /\ codec.phase = "str"
  /\ codec' = [codec EXCEPT !.phase = "parsed", !.parsed = parseTime(codec.str)]
  /\ UNCHANGED <<timerVars, twin>>

\* msToString(parseTime(str)) when parseTime accepted str
FormatParsed ==
  /\ codec.phase = "parsed"
  /\ codec.parsed # null
  /\ codec' = [codec EXCEPT !.phase = "reformatted", !.text = msToString(codec.parsed[1])]
  /\ UNCHANGED <<timerVars, twin>>

CodecNext == FormatMs \/ ParseFormatted \/ ParseStr \/ FormatParsed

CodecSpec == CodecInit /\ [][CodecNext]_vars

----------------------------------------------------------------------------
(* The two clock sources side by side: the same startTimer, pauseTimer and *)
(* resetTimer calls are made on a session whose worker was built and on a  *)
(* session that fell back at construction.                                 *)

TwinCalls == {"start", "pause", "reset"}

TwinApply(op, c) ==
  CASE op = "start" -> startTimer(c)
    [] op = "pause" -> pauseTimer(c)
    [] OTHER -> resetTimer(c)

\* the same call on both sessions
TwinCall(op) ==
  /\ twin.calls < MaxCalls
  /\ \E i \in {TwinApply(op, twin.iso)}, f \in {TwinApply(op, twin.fb)} :
       /\ Len(i.toWorker) <= MaxQueue
       /\ f.intervals <= MaxIntervals
       /\ twin' = [twin EXCEPT !.iso = i, !.fb = f, !.calls = @ + 1]
  /\ UNCHANGED <<timerVars, codec>>

\* the worker handles the next message of its page
TwinWorkerHandle ==
  /\ twin.iso.toWorker # <<>>
  /\ \E w \in {onPageMessage(twin.wk, Head(twin.iso.toWorker))} :
       /\ Len(w.toMain) <= MaxQueue
       /\ twin' = [twin EXCEPT !.wk = w, !.iso.toWorker = Tail(@)]
  /\ UNCHANGED <<timerVars, codec>>

\* the page handles the next message of its worker
TwinDeliver ==
  /\ twin.wk.toMain # <<>>
  /\ twin' = [twin EXCEPT !.iso = onWorkerMessage(@, Head(twin.wk.toMain)),
                          !.wk.toMain = Tail(@)]
  /\ UNCHANGED <<timerVars, codec>>

\* the worker's interval timer fires
TwinWorkerTick ==
  /\ twin.wk.timers > 0
  /\ \E w \in {tick(twin.wk)} :
       /\ Len(w.toMain) <= MaxQueue
       /\ twin' = [twin EXCEPT !.wk = w]
  /\ UNCHANGED <<timerVars, codec>>

\* the fallback session's interval timer fires
TwinFallbackInterval ==
  /\ twin.fb.intervals > 0
  /\ twin' = [twin EXCEPT !.fb = fallbackTick(@)]
  /\ UNCHANGED <<timerVars, codec>>

\* time passes for both sessions
TwinAdvance ==
  /\ twin.fb.now < MaxSteps * Quantum
  /\ twin' = [twin EXCEPT !.iso.now = @ + Quantum,
                          !.wk.now = @ + Quantum,
                          !.fb.now = @ + Quantum]
  /\ UNCHANGED <<timerVars, codec>>

TwinNext ==
  \/ \E op \in TwinCalls : TwinCall(op)
  \/ TwinWorkerHandle
  \/ TwinDeliver
  \/ TwinWorkerTick
  \/ TwinFallbackInterval
  \/ TwinAdvance

TwinInit == TimerInit /\ codec = CodecIdle /\ twin = TwinStart

TwinSpec == TwinInit /\ [][TwinNext]_vars

----------------------------------------------------------------------------
(* Properties *)

Quiet == toWorker = <<>> /\ toMain = <<>>

\* the clock source the page currently uses reports running
ActiveClockRunning == IF state.workerFallback THEN fallbackInterval ELSE wk.running

\* the page handles a 'paused' message in this step
DeliverPaused == toMain # <<>> /\ Head(toMain).type = "paused" /\ toMain' = Tail(toMain)

\* C1: once resetTimer() was the last control operation and every message
\* has been delivered, the session is Idle: not running, elapsed 0, not completed.
C1_ResetReachesIdle ==
  (lastOp = "reset" /\ Quiet) =>
     (~state.running /\ state.elapsedMs = 0 /\ ~state.countdownCompleted)

\* C2: handleCountdownComplete runs at most once between two accepted starts.
C2_CompletionAtMostOnce == completions <= 1

\* C3: a mode switch made while Running ends paused with elapsed 0: for the
\* worker once the 'paused' acknowledgment is handled, for the fallback at
\* the end of setMode.
C3_SwitchPausesThenZeroes ==
  [][((~state.workerFallback /\ lastOp = "switchRunning" /\ DeliverPaused)
       \/ (state.workerFallback /\ state.running /\ state'.mode # state.mode))
     => (~state'.running /\ state'.elapsedMs = 0)]_vars

\* C4: a fault of the worker while the session is Running pauses the session
\* and keeps its elapsed value.
C4_FaultPausesSession ==
  [][(~state.workerFallback /\ state'.workerFallback /\ state.running)
     => (~state'.running /\ state'.elapsedMs = state.elapsedMs)]_vars

\* the fallback clock is paused in this step (not reset)
FallbackPauseStep ==
  /\ state.workerFallback /\ state.running
  /\ fallbackInterval /\ ~fallbackInterval'
  /\ ~(lastOp' = "reset" /\ ops' # ops)

\* the worker handles a 'pause' message while running in this step
WorkerPauseStep ==
  /\ toWorker # <<>> /\ Head(toWorker).type = "pause" /\ toWorker' = Tail(toWorker)
  /\ wk.running

\* C5: for both clock sources, the elapsed value a pause reports is the
\* value the clock was started from plus the time between start and pause.
C5_PauseReportsInstant ==
  [][/\ FallbackPauseStep =>
          fallbackAccumulated' = fallbackAccumulated + (now - fallbackStartTime)
     /\ WorkerPauseStep =>
          /\ toMain' # <<>>
          /\ toMain'[Len(toMain')] =
               [type |-> "paused",
                elapsed |-> wk.accumulatedMs + (now - wk.startTime)]
          /\ wk'.accumulatedMs = wk.accumulatedMs + (now - wk.startTime)]_vars

C7_EditWritesOnlyWhenNotRunning ==
  [][(isEditing /\ ~isEditing'
      /\ (state'.elapsedMs # state.elapsedMs
          \/ state'.countdownTargetMs # state.countdownTargetMs))
     => ~state.running]_vars

\* C8: an edit that ends rejected (parseTime returns null) or cancelled
\* leaves mode, running, elapsedMs, countdownTargetMs and countdownCompleted
\* as they were.
C8_RejectedEditChangesNothing ==
  [][(\E save \in BOOLEAN, value \in EditInputs :
         /\ ~save \/ parseTime(value) = null
         /\ ExitEdit(save, value))
     => /\ state'.mode = state.mode
        /\ state'.running = state.running
        /\ state'.elapsedMs = state.elapsedMs
        /\ state'.countdownTargetMs = state.countdownTargetMs
        /\ state'.countdownCompleted = state.countdownCompleted]_vars

\* C9: whenever the display is rewritten in Countdown mode it shows
\* max(0, countdownTargetMs - elapsedMs), so never a negative time.
C9_RemainingClampedAtZero ==
  [][(display' # display /\ state'.mode = MODE_COUNTDOWN)
     => display' = formatTime(Max(0, state'.countdownTargetMs - state'.elapsedMs))]_vars

C9_Witness ==
  /\ state.mode = MODE_COUNTDOWN
  /\ state.countdownTargetMs > 0
  /\ state.elapsedMs > state.countdownTargetMs
  /\ state.countdownCompleted
  /\ display = formatTime(0)

\* the countdown has run out and the completion has not fired
Overdue ==
  /\ state.mode = MODE_COUNTDOWN
  /\ state.running
  /\ state.countdownTargetMs - state.elapsedMs <= 0
  /\ ~state.countdownCompleted

\* C10: once the countdown has run out while Running, the completion
\* eventually fires (unless the user ends the run first), whether or not
\* frames are being rendered.
C10_CompletionEventuallyFires == Overdue ~> ~Overdue

\* the number a text of one or two digits denotes
TwoDigitValue(t) ==
  IF Len(t) = 1 THEN DigitValue(t[1]) ELSE 10 * DigitValue(t[1]) + DigitValue(t[2])

\* a number below 100 written with two digits
TwoDigits(n) == <<DigitChars[(n \div 10) + 1], DigitChars[(n % 10) + 1]>>

\* C11: parseTime(msToString(ms)) = ms for every whole-centisecond ms below
\* 100 hours, and msToString(parseTime(s)) is s with each component padded
\* to two digits for every s that parseTime accepts.
C11_CodecRoundTrip ==
  /\ (codec.phase = "reparsed" /\ codec.ms % 10 = 0 /\ codec.ms < 100 * MS_PER_HOUR)
       => codec.parsed = <<codec.ms>>
  /\ codec.phase = "reformatted"
       => /\ codec.comps # <<>>
          /\ codec.text = Join4(PadStart2(codec.comps[1]), PadStart2(codec.comps[2]),
                                PadStart2(codec.comps[3]), PadStart2(codec.comps[4]))

C11_Witness ==
  /\ codec.phase = "reparsed"
  /\ codec.ms = 99 * MS_PER_HOUR + 59 * MS_PER_MINUTE + 59 * MS_PER_SECOND + 990
  /\ codec.parsed = <<codec.ms>>

\* what formatTime must show for ms: floor(ms/10) mod 100 centiseconds,
\* floor(ms/1000) mod 60 seconds, floor(ms/60000) mod 60 minutes and
\* floor(ms/3600000) hours
ExpectedText(ms) ==
  LET hours == ms \div 3600000
  IN Join4(IF hours < 100 THEN TwoDigits(hours) ELSE NatToString(hours),
           TwoDigits((ms \div 60000) % 60),
           TwoDigits((ms \div 1000) % 60),
           TwoDigits((ms \div 10) % 100))

\* what parseTime must return for components <<h, m, s, c>>
ExpectedParse(comps) ==
  LET h == TwoDigitValue(comps[1])
      m == TwoDigitValue(comps[2])
      s == TwoDigitValue(comps[3])
      c == TwoDigitValue(comps[4])
  IN IF m < 60 /\ s < 60 /\ c < 100
     THEN <<h * 3600000 + m * 60000 + s * 1000 + c * 10>>
     ELSE null

FormatAsSpecified ==
  /\ codec.phase = "formatted" => codec.text = ExpectedText(codec.ms)
  /\ (codec.phase = "formatted" /\ codec.ms = 12345)
       => codec.text = <<"0", "0", ":", "0", "0", ":", "1", "2", ".", "3", "4">>

\* C12 as stated: parseTime accepts exactly the texts h:m:s.c of one or two
\* digits each with m < 60, s < 60, c < 100, returns their value and returns
\* null for every other text; formatTime shows the four components of ms.
C12_ParseAcceptsExactly ==
  /\ codec.phase = "parsed"
       => codec.parsed = (IF codec.comps # <<>> /\ ~codec.padded
                          THEN ExpectedParse(codec.comps) ELSE null)
  /\ FormatAsSpecified

\* C12 as amended: parseTime first trims the blanks around the text; the
\* trimmed text is accepted exactly when it is h:m:s.c of one or two digits
\* each with m < 60, s < 60, c < 100, and then its value is returned; every
\* other text gives null.  formatTime shows the four components of ms.
C12_ParseAcceptsTrimmed ==
  /\ codec.phase = "parsed"
       => codec.parsed = (IF codec.comps # <<>>
                          THEN ExpectedParse(codec.comps) ELSE null)
  /\ FormatAsSpecified

C12_Witness ==
  /\ codec.phase = "parsed"
  /\ codec.padded
  /\ codec.comps = << <<"1", "2">>, <<"0", "7">>, <<"5", "9">>, <<"5">> >>
  /\ codec.parsed = <<12 * 3600000 + 7 * 60000 + 59 * 1000 + 50>>

\* C13: the target of the last successful target edit (0 included) is the
\* countdown target again after Countdown -> Stopwatch -> Countdown; the
\* 5-minute default is used only when no target was ever set.  Every target
\* edit records its value in the store, and a switch back to Countdown must
\* bring that value back.
C13_TargetSurvivesModeSwitch ==
  [][/\ (state.mode = MODE_COUNTDOWN /\ state'.mode = MODE_COUNTDOWN
         /\ state'.countdownTargetMs # state.countdownTargetMs)
          => stored' = <<state'.countdownTargetMs>>
     /\ (state.mode = MODE_COUNTDOWN /\ state'.mode = MODE_STOPWATCH)
          => state'.countdownTargetMs = state.countdownTargetMs
     /\ (state.mode = MODE_STOPWATCH /\ state'.mode = MODE_COUNTDOWN)
          => state'.countdownTargetMs =
               (IF stored # null THEN stored[1] ELSE DefaultTargetMs)]_vars

\* C14: once state.workerFallback is true it stays true, and no step taken
\* from then on appends a message to the worker's channel: the channel is
\* left alone or loses the message the worker handles.
C14_FallbackIsPermanent ==
  [][state.workerFallback
       => /\ state'.workerFallback
          /\ \/ toWorker' = toWorker
             \/ (toWorker # <<>> /\ toWorker' = Tail(toWorker))]_vars

C14_Witness ==
  /\ state.worker
  /\ state.workerFallback
  /\ state.running
  /\ fallbackInterval

\* an explicit reset takes effect in this step: resetTimer itself, or the
\* page handling the worker's 'reset' message
ResetStep ==
  \/ (lastOp' = "reset" /\ ops' # ops)
  \/ (toMain # <<>> /\ Head(toMain).type = "reset" /\ toMain' = Tail(toMain))

\* C15: no step taken while state.running is true lowers state.elapsedMs,
\* other than an explicit reset.  A handler that first pauses (and so ends
\* with state.running false) writes while not running and is left out.
C15_ElapsedMonotoneWhileRunning ==
  [][(state.running /\ state'.running /\ state'.elapsedMs < state.elapsedMs)
       => ResetStep]_vars

\* the worker handles a 'start' message in this step
StartHandled ==
  toWorker # <<>> /\ Head(toWorker).type = "start" /\ toWorker' = Tail(toWorker)

\* C16: a 'start' that reaches the worker while it is already running
\* changes nothing: no second tick interval, no second 'started', and
\* accumulatedMs and startTime stay those of the first start.  The first
\* start creates one interval and emits one 'started'.
C16_RepeatedStartIsNoOp ==
  [][/\ (StartHandled /\ wk.running)
          => (wk' = wk /\ wk.timers = 1 /\ toMain' = toMain)
     /\ (StartHandled /\ ~wk.running)
          => /\ wk'.timers = 1
             /\ wk'.accumulatedMs = Head(toWorker).fromMs
             /\ wk'.startTime = now
             /\ toMain' = Append(toMain, [type |-> "started",
                                          elapsed |-> Head(toWorker).fromMs])]_vars

\* a second 'start' waits at the worker, which runs from the first one whose
\* acknowledgment the page has not handled yet
C16_Witness ==
  /\ wk.running
  /\ toWorker # <<>> /\ Head(toWorker).type = "start"
  /\ toMain # <<>> /\ toMain[Len(toMain)].type = "started"
  /\ ~state.running

\* the page handles a 'started' message in this step
DeliverStarted ==
  toMain # <<>> /\ Head(toMain).type = "started" /\ toMain' = Tail(toMain)

\* C17: while the worker is the clock, state.running turns from false to
\* true only in the step that handles a 'started' message, and a start
\* request leaves it false; with the fallback clock the start request itself
\* makes it true.
C17_RunningFollowsAcknowledgment ==
  [][/\ (~state.workerFallback /\ ~state.running /\ state'.running)
          => DeliverStarted
     /\ (ClickStartPause /\ ~state.running)
          => IF state.workerFallback
             THEN state'.running /\ toWorker' = toWorker
             ELSE /\ ~state'.running
                  /\ toWorker' = Append(toWorker, [type |-> "start",
                                                   fromMs |-> state.elapsedMs])]_vars

\* one start request was made and its acknowledgment made the session run
C17_Witness ==
  /\ ~state.workerFallback
  /\ ops = 1
  /\ state.running
  /\ state.animationFrameId
  /\ toWorker = <<>>

\* the worker handles a 'reset' message in this step
ResetHandled ==
  toWorker # <<>> /\ Head(toWorker).type = "reset" /\ toWorker' = Tail(toWorker)

\* C18: a 'reset' handled by the running worker posts 'reset' with elapsed 0
\* and then 'started' with elapsed 0, and leaves the worker running from
\* zero with one tick interval; handled by the stopped worker it posts only
\* 'reset' and leaves the worker stopped with accumulatedMs 0.
C18_WorkerResetRestarts ==
  [][/\ (ResetHandled /\ wk.running)
          => /\ toMain' = toMain \o <<[type |-> "reset", elapsed |-> 0],
                                      [type |-> "started", elapsed |-> 0]>>
             /\ wk' = [running |-> TRUE, startTime |-> now, accumulatedMs |-> 0,
                       tickInterval |-> TRUE, timers |-> 1]
     /\ (ResetHandled /\ ~wk.running)
          => /\ toMain' = Append(toMain, [type |-> "reset", elapsed |-> 0])
             /\ wk' = [running |-> FALSE, startTime |-> 0, accumulatedMs |-> 0,
                       tickInterval |-> FALSE, timers |-> 0]]_vars

\* the session was running when Reset was requested, and the running worker
\* has just handled the 'reset' some time after its start
C18_Witness ==
  /\ state.running
  /\ lastOp = "reset"
  /\ toWorker = <<>>
  /\ wk.running
  /\ wk.startTime > 0
  /\ Len(toMain) = 2
  /\ toMain[1].type = "reset"
  /\ toMain[2].type = "started"

\* no message of the twin's worker session is in flight
TwinQuiet == twin.iso.toWorker = <<>> /\ twin.wk.toMain = <<>>

\* C19: after the same startTimer, pauseTimer and resetTimer calls, once
\* every message has been delivered, the session on the worker clock and the
\* session on the fallback clock agree on state.running, and the worker runs
\* exactly when the fallback interval is set.
C19_ClockSourcesAgree ==
  TwinQuiet => /\ twin.iso.state.running = twin.fb.state.running
               /\ twin.wk.running = twin.fb.fallbackInterval

\* C20: once the page has switched to the fallback clock, handling a
\* message of the worker changes neither state.running nor state.elapsedMs,
\* and the page never has more than one live fallback interval.
C20_SingleWriter ==
  /\ [](intervals <= 1)
  /\ [][(state.workerFallback /\ toMain # <<>> /\ toMain' = Tail(toMain))
          => /\ state'.running = state.running
             /\ state'.elapsedMs = state.elapsedMs]_vars

\* C21: in every state a scheduled animation frame (state.animationFrameId
\* not null) implies that the session is running and the document is
\* visible; and when the document becomes visible while the session is
\* running, a frame is scheduled.
C21_RenderLoopSuspended ==
  /\ [](state.animationFrameId => (state.running /\ ~hidden))
  /\ [][(hidden /\ ~hidden' /\ state.running)
          => (state'.animationFrameId /\ framePending')]_vars

\* the acknowledgment the worker posts for a control message
Acknowledgment(type) ==
  CASE type = "start" -> "started"
    [] type = "pause" -> "paused"
    [] type = "reset" -> "reset"

ControlTypes == {"start", "pause", "reset"}

InFlight(queue, type) == \E i \in 1..Len(queue) : queue[i].type = type

\* the control message the worker handles next changes its run state or
\* is a reset
HeadTakesEffect(type) ==
  /\ toWorker # <<>>
  /\ Head(toWorker).type = type
  /\ (type = "start") => ~wk.running
  /\ (type = "pause") => wk.running

\* C22: with fair delivery and no fault, whenever a control message
\* (start, pause, reset) is on its way to the worker, its acknowledgment
\* (started, paused, reset) is eventually on its way to the page.
C22_EveryControlAcknowledged ==
  \A type \in ControlTypes :
    InFlight(toWorker, type) ~> InFlight(toMain, Acknowledgment(type))

\* C22, amended: a start that reaches the stopped worker, a pause that
\* reaches the running worker and every reset is eventually acknowledged.
C22_EffectiveControlAcknowledged ==
  \A type \in ControlTypes :
    HeadTakesEffect(type) ~> InFlight(toMain, Acknowledgment(type))

\* a pause is about to be handled by the running worker and no
\* acknowledgment of a pause is under way
C22_Witness ==
  /\ HeadTakesEffect("pause")
  /\ ~InFlight(toMain, "paused")
  /\ state.running

\* the worker is the clock source of the page
IsolatedClockActive == state.worker /\ ~state.workerFallback

\* the last acknowledgment on its way to the page reports the run state
\* the worker is in
LastAcknowledgmentReports(running) ==
  \E i \in 1..Len(toMain) :
    /\ toMain[i].type \in {"started", "paused", "reset"}
    /\ \A j \in (i + 1)..Len(toMain) : toMain[j].type = "tick"
    /\ running <=> (toMain[i].type = "started")

\* C23: without a fault and with the worker as clock source,
\* state.running differs from the worker's running flag only while an
\* acknowledgment that reports the worker's run state is undelivered; so
\* the two are equal whenever no message is in flight in either direction.
C23_LagsOnlyWhileUnacknowledged ==
  IsolatedClockActive =>
    /\ (state.running # wk.running) => LastAcknowledgmentReports(wk.running)
    /\ Quiet => (state.running = wk.running)

\* the worker has paused and its "paused" has not reached the page, which
\* still counts as running and holds a nonzero elapsed time
C23_Witness ==
  /\ IsolatedClockActive
  /\ state.running
  /\ ~wk.running
  /\ toWorker = <<>>
  /\ InFlight(toMain, "paused")
  /\ state.elapsedMs > 0

\* handleCountdownComplete runs in the step
CompletionFires == ~state.countdownCompleted /\ state'.countdownCompleted

\* C24: after a switch into Countdown mode made while the session was
\* running, no step runs handleCountdownComplete before the user has
\* pressed Start again: while the switch is the user's last operation, no
\* message, frame or timer step completes the countdown.
C24_NoCompletionBeforeNewStart ==
  [][(lastOp = "switchRunning" /\ lastOp' = lastOp
        /\ state.mode = MODE_COUNTDOWN)
     => ~CompletionFires]_vars

\* the worker posts a 'tick' in the step
TickPosted ==
  /\ Len(toMain') > Len(toMain)
  /\ toMain'[Len(toMain')].type = "tick"

\* no 'tick' follows a 'paused' or a 'reset' on the way to the page unless
\* a 'started' lies between them
NoTickBehindStop ==
  \A i, j \in 1..Len(toMain) :
    (i < j /\ toMain[i].type \in {"paused", "reset"} /\ toMain[j].type = "tick")
      => \E k \in (i + 1)..(j - 1) : toMain[k].type = "started"

\* C25: in the worker tickInterval is set if and only if running is true
\* and exactly the running worker has one live interval timer; a 'tick' is
\* posted only by the running worker, so none follows the 'paused' or the
\* 'reset' of a stopped clock.
C25_TickIntervalIffRunning ==
  /\ [](/\ wk.tickInterval = wk.running
        /\ wk.timers = (IF wk.running THEN 1 ELSE 0)
        /\ NoTickBehindStop)
  /\ [][TickPosted => (wk.running /\ wk'.running)]_vars

\* the worker has posted a 'tick' and then paused: it is stopped without a
\* timer, and 'paused' is the last message under way
C25_Witness ==
  /\ ~wk.running
  /\ ~wk.tickInterval
  /\ wk.timers = 0
  /\ Len(toMain) = 2
  /\ toMain[1].type = "tick"
  /\ toMain[2].type = "paused"

====
